---- MODULE Spec2Model ----
(***************************************************************************)
(* Model of scripts/optimize-webp.mjs: a batch re-encoder of the WEBP      *)
(* files under <cwd>/images.  The file system is a map from paths to file  *)
(* contents; a path is the sequence of its characters, so that             *)
(* toLowerCase().endsWith(".webp") and `${filePath}.tmp` are computed on   *)
(* the characters as the script computes them.  The image library (sharp)  *)
(* is external: what it returns for a file is an attribute of the file's   *)
(* bytes (its pixel width, whether its header decodes, the byte length of  *)
(* its re-encoding), and it is a function of those bytes.  Every awaited   *)
(* file-system or library call may reject.                                 *)
(***************************************************************************)
EXTENDS Integers, Sequences, FiniteSets, TLC

VARIABLES
    dirPresent,    \* whether <cwd>/images exists
    disk,          \* path -> content of the file at that path
    start,         \* the disk as it was when the current run began
    run,           \* number of the current invocation of the script
    prevChanged,   \* paths the previous invocation replaced
    pc,            \* position of the single thread of control
    webps,         \* main: the filtered candidate list
    idx,           \* main: position of the for-of loop in webps
    changedCount,  \* main: let changedCount
    savedBytes,    \* main: let savedBytes
    buf,           \* optimizeWebp: const buf
    outBuf,        \* optimizeWebp: const outBuf
    res,           \* main: const r, the result of optimizeWebp
    out,           \* lines printed on standard output in this run
    exit,          \* "running", "exit0", "exit1" or "killed"
    err,           \* the awaited call that rejected, "none" if none did
    trace          \* the file operations of this run, in order

vars == <<dirPresent, disk, start, run, prevChanged, pc, webps, idx,
          changedCount, savedBytes, buf, outBuf, res, out, exit, err, trace>>

----------------------------------------------------------------------------
(* Bounds of the model *)

\* Byte lengths of files range over 1..MaxBytes.
MaxBytes == 3

\* Number of successive invocations of the script.
NumRuns == 2

\* Pixel widths of the images on disk (one below, one above MAX_WIDTH).
Widths == {800, 3000}

----------------------------------------------------------------------------
(* Characters and paths *)

Upper == <<"A","B","C","D","E","F","G","H","I","J","K","L","M",
           "N","O","P","Q","R","S","T","U","V","W","X","Y","Z">>
Lower == <<"a","b","c","d","e","f","g","h","i","j","k","l","m",
           "n","o","p","q","r","s","t","u","v","w","x","y","z">>

\* the lower-case letter of each upper-case letter
CaseMap ==
    [c \in { Upper[k] : k \in 1..Len(Upper) } |->
        Lower[CHOOSE k \in 1..Len(Upper) : Upper[k] = c]]

ToLowerChar(c) == IF c \in DOMAIN CaseMap THEN CaseMap[c] ELSE c

ToLowerCase(s) == [k \in 1..Len(s) |-> ToLowerChar(s[k])]

EndsWith(s, suffix) ==
    /\ Len(s) >= Len(suffix)
    /\ SubSeq(s, Len(s) - Len(suffix) + 1, Len(s)) = suffix

\* path.join of a directory and an entry name
Join(dir, name) == dir \o <<"/">> \o name

\* path.relative(from, to) for a path below from
Relative(from, to) == SubSeq(to, Len(from) + 2, Len(to))

DotWebp == <<".","w","e","b","p">>
DotTmp  == <<".","t","m","p">>

ROOT == <<"/","r">>
TARGET_DIR == Join(ROOT, <<"i","m","a","g","e","s">>)

\* f.toLowerCase().endsWith(".webp")
IsWebp(p) == EndsWith(ToLowerCase(p), DotWebp)

IsTmp(p) == EndsWith(p, DotTmp)

\* A mutant of TmpPath: the output is written in place.
TmpPathInPlace(filePath) == filePath

\* const tmp = `${filePath}.tmp`
TmpPath(filePath) == filePath \o DotTmp

----------------------------------------------------------------------------
(* The directory tree *)

NameA   == <<"a",".","w","e","b","p">>
NameB   == <<"B",".","W","E","B","P">>
NameATmp == NameA \o DotTmp
NameBTmp == NameB \o DotTmp
NameC   == <<"c",".","p","n","g">>
NameSub == <<"s","u","b">>

SubDir == Join(TARGET_DIR, NameSub)

PathA    == Join(TARGET_DIR, NameA)
PathATmp == Join(TARGET_DIR, NameATmp)
PathC    == Join(TARGET_DIR, NameC)
PathB    == Join(SubDir, NameB)
PathBTmp == Join(SubDir, NameBTmp)

Paths == {PathA, PathATmp, PathC, PathB, PathBTmp}

File(name) == [name |-> name, isDir |-> FALSE]
Dir(name)  == [name |-> name, isDir |-> TRUE]

\* The order in which readdir lists the entries a directory can hold.
Listing(dir) ==
    IF dir = TARGET_DIR
    THEN <<File(NameA), Dir(NameSub), File(NameATmp), File(NameC)>>
    ELSE IF dir = SubDir
    THEN <<File(NameB), File(NameBTmp)>>
    ELSE <<>>

----------------------------------------------------------------------------
(* File contents *)

Content(kind, len, width, re, stable) ==
    [kind |-> kind, len |-> len, width |-> width, re |-> re, stable |-> stable]

Absent  == Content("absent", 0, 0, 0, TRUE)
\* a file being written: truncated, not yet complete
Partial == Content("partial", 0, 0, 0, TRUE)
\* bytes that are no image the library can read the header of
Corrupt == Content("corrupt", 1, 0, 0, TRUE)
\* bytes of some other file (a picture of another format, a stale temporary)
Other   == Content("other", 1, 0, 0, TRUE)

\* An image of len bytes and width pixels whose re-encoding has re bytes;
\* re-encoding the re-encoding gives re bytes again when stable, one less
\* otherwise.
Images ==
    { c \in [kind : {"image"}, len : 1..MaxBytes, width : Widths,
             re : 1..MaxBytes, stable : BOOLEAN] : c.stable \/ c.re > 1 }

CandidateContents == Images \cup {Corrupt, Absent}

----------------------------------------------------------------------------
(* The image library *)

\* parseInt(process.env.MAX_WIDTH || "1920", 10) with MAX_WIDTH unset
MAX_WIDTH == 1920

\* img.metadata() resolves
MetadataOk(b) == b.kind = "image"

\* meta?.width ?? 0
MetaWidth(b) == IF MetadataOk(b) THEN b.width ELSE 0

\* .resize({ width: MAX_WIDTH, withoutEnlargement: true })
ResizedWidth(w) == IF w > MAX_WIDTH THEN MAX_WIDTH ELSE w

\* sharp(buf).resize(...).webp({ quality: QUALITY }).toBuffer()
ToBuffer(b) ==
    Content("image", b.re, ResizedWidth(b.width),
            IF b.stable THEN b.re ELSE b.re - 1, TRUE)

----------------------------------------------------------------------------
(* The file system *)

\* fs.readdir(dir, { withFileTypes: true }) on the disk d
Readdir(dir, d) ==
    LET Present(e) == e.isDir \/ d[Join(dir, e.name)] # Absent
    IN  SelectSeq(Listing(dir), Present)

RECURSIVE Walk(_, _)
RECURSIVE WalkEntries(_, _, _)

\* the body of the for-of loop of walk, over the entries left
WalkEntries(dir, entries, d) ==
    IF entries = <<>> THEN <<>>
    ELSE LET e    == Head(entries)
             full == Join(dir, e.name)
         IN  (IF e.isDir THEN Walk(full, d) ELSE <<full>>)
                 \o WalkEntries(dir, Tail(entries), d)

\* walk(dir)
Walk(dir, d) == WalkEntries(dir, Readdir(dir, d), d)

\* files.filter(f => f.toLowerCase().endsWith(".webp"))
FilterWebp(files) == SelectSeq(files, IsWebp)

\* A mutant of Rename: the temporary file is copied, not moved.
RenameCopies(d, from, to) == [d EXCEPT ![to] = d[from]]

\* fs.rename(from, to): to takes the content of from, and from is gone
Rename(d, from, to) ==
    IF from = to THEN d
    ELSE [d EXCEPT ![to] = d[from], ![from] = Absent]

\* A mutant of Exists: the directory is taken to exist.
ExistsAlways(present, accessOk) == TRUE

\* exists(p): fs.access resolved
Exists(present, accessOk) == present /\ accessOk

----------------------------------------------------------------------------
(* The decision of optimizeWebp *)

\* const resized = width > MAX_WIDTH
Resized(width) == width > MAX_WIDTH

\* A mutant of Smaller: an output of equal length counts as smaller.
SmallerOrEqual(outLen, bufLen) == outLen <= bufLen

\* const smaller = outBuf.length < buf.length
Smaller(outLen, bufLen) == outLen < bufLen

\* A mutant of NeedsWrite: a resized image is written only when smaller.
NeedsWriteOnlySmaller(resized, smaller) == smaller

\* the negation of  if (!resized && !smaller) return ...
NeedsWrite(resized, smaller) == ~(~resized /\ ~smaller)

Result(changed, reason, resized, oldBytes, newBytes, width) ==
    [changed |-> changed, reason |-> reason, resized |-> resized,
     oldBytes |-> oldBytes, newBytes |-> newBytes, width |-> width]

\* { changed: false } and { changed: false, reason }
Unchanged(reason) == Result(FALSE, reason, FALSE, 0, 0, 0)

Line(kind, path, a, b) == [line |-> kind, path |-> path, a |-> a, b |-> b]

\* an operation of optimizeWebp(file) on the path it names
Event(op, file, path) == [op |-> op, file |-> file, path |-> path]

----------------------------------------------------------------------------
(* Initial states *)

\* A directory tree: a.webp and sub/B.WEBP hold any candidate content or are
\* absent, a.webp.tmp is absent or a file left by an interrupted run, and
\* c.png is a file of another format.  Without the directory there is none.
DiskOf(a, aTmp, b) ==
    [p \in Paths |->
        IF p = PathA THEN a
        ELSE IF p = PathATmp THEN aTmp
        ELSE IF p = PathB THEN b
        ELSE IF p = PathC THEN Other
        ELSE Absent]

InitialDisks(present) ==
    IF present
    THEN { DiskOf(a, aTmp, b) :
             a \in CandidateContents, aTmp \in {Absent, Other},
             b \in CandidateContents }
    ELSE { [p \in Paths |-> Absent] }

Init ==
    /\ dirPresent \in BOOLEAN
    /\ disk \in InitialDisks(dirPresent)
    /\ start = disk
    /\ run = 1
    /\ prevChanged = {}
    /\ pc = "main"
    /\ webps = <<>>
    /\ idx = 1
    /\ changedCount = 0
    /\ savedBytes = 0
    /\ buf = Absent
    /\ outBuf = Absent
    /\ res = Unchanged("none")
    /\ out = <<>>
    /\ exit = "running"
    /\ err = "none"
    /\ trace = <<>>

----------------------------------------------------------------------------
(* Failures *)

\* A mutant of Propagate: the handler logs and the process ends normally.
PropagateNoExit == pc' = "end" /\ exit' = "exit0"

\* main().catch((e) => { console.error(e); process.exit(1); })
Propagate == pc' = "end" /\ exit' = "exit1"

\* An awaited call rejects outside a try block.
Throw(call) ==
    /\ err' = call
    /\ Propagate
    /\ UNCHANGED <<dirPresent, disk, start, run, prevChanged, webps, idx,
                   changedCount, savedBytes, buf, outBuf, res, out, trace>>

----------------------------------------------------------------------------
(* main *)

\* if (!(await exists(TARGET_DIR))) { console.log(...); return; }
MainExists ==
    /\ pc = "main"
    /\ \E accessOk \in BOOLEAN :
        IF Exists(dirPresent, accessOk)
        THEN /\ pc' = "walk"
             /\ UNCHANGED <<out, exit>>
        ELSE /\ out' = Append(out, Line("nodir", TARGET_DIR, 0, 0))
             /\ pc' = "end"
             /\ exit' = "exit0"
    /\ UNCHANGED <<dirPresent, disk, start, run, prevChanged, webps, idx,
                   changedCount, savedBytes, buf, outBuf, res, err, trace>>

\* const files = await walk(TARGET_DIR); const webps = files.filter(...);
\* let changedCount = 0; let savedBytes = 0;
MainWalk ==
    /\ pc = "walk"
    /\ \E ok \in BOOLEAN :
        IF dirPresent /\ ok
        THEN /\ webps' = FilterWebp(Walk(TARGET_DIR, disk))
             /\ idx' = 1
             /\ changedCount' = 0
             /\ savedBytes' = 0
             /\ pc' = "loop"
             /\ UNCHANGED <<dirPresent, disk, start, run, prevChanged, buf,
                            outBuf, res, out, exit, err, trace>>
        ELSE Throw("readdir")

\* for (const f of webps) { const r = await optimizeWebp(f); ... }
\* console.log(`Done. changed=${changedCount}, saved=${savedBytes} bytes`)
\* The call enters optimizeWebp, whose first line returns { changed: false }
\* for a path that is no .webp.
MainLoop ==
    /\ pc = "loop"
    /\ IF idx <= Len(webps)
       THEN /\ IF IsWebp(webps[idx])
               THEN pc' = "readFile" /\ res' = res
               ELSE pc' = "result" /\ res' = Unchanged("none")
            /\ UNCHANGED <<out, exit>>
       ELSE /\ out' = Append(out, Line("done", <<>>, changedCount, savedBytes))
            /\ pc' = "end"
            /\ exit' = "exit0"
            /\ res' = res
    /\ UNCHANGED <<dirPresent, disk, start, run, prevChanged, webps, idx,
                   changedCount, savedBytes, buf, outBuf, err, trace>>

\* A mutant of SavedDelta: the difference is taken the wrong way round.
SavedDeltaReversed(r) == r.newBytes - r.oldBytes

\* (r.oldBytes - r.newBytes)
SavedDelta(r) == r.oldBytes - r.newBytes

\* A mutant of NextIndex: the loop steps over a candidate.
NextIndexSkips(k) == k + 2

\* the for-of loop takes the next element of webps
NextIndex(k) == k + 1

\* if (r.changed) { changedCount++; savedBytes += ...; console.log(...) }
MainResult ==
    /\ pc = "result"
    /\ IF res.changed
       THEN /\ changedCount' = changedCount + 1
            /\ savedBytes' = savedBytes + SavedDelta(res)
            /\ out' = Append(out, Line("optimized", Relative(ROOT, webps[idx]),
                                       res.oldBytes, res.newBytes))
       ELSE UNCHANGED <<changedCount, savedBytes, out>>
    /\ idx' = NextIndex(idx)
    /\ pc' = "loop"
    /\ UNCHANGED <<dirPresent, disk, start, run, prevChanged, webps, buf,
                   outBuf, res, exit, err, trace>>

----------------------------------------------------------------------------
(* optimizeWebp(webps[idx]) *)

\* const buf = await fs.readFile(filePath);
\* const img = sharp(buf, { failOnError: false });
\* Either call may throw, and neither is inside the try block.
OptReadFile ==
    /\ pc = "readFile"
    /\ \E outcome \in {"ok", "readFile", "sharp"} :
        IF outcome = "ok"
        THEN /\ buf' = disk[webps[idx]]
             /\ trace' = Append(trace, Event("readFile", webps[idx], webps[idx]))
             /\ pc' = "metadata"
             /\ UNCHANGED <<dirPresent, disk, start, run, prevChanged, webps,
                            idx, changedCount, savedBytes, outBuf, res, out,
                            exit, err>>
        ELSE Throw(outcome)

\* A mutant of MetadataCatch: the rejection is not caught.
MetadataRethrow ==
    /\ Throw("metadata")
    /\ UNCHANGED res

\* catch { return { changed: false, reason: "metadata_failed" }; }
MetadataCatch ==
    /\ res' = Unchanged("metadata_failed")
    /\ pc' = "result"
    /\ UNCHANGED <<dirPresent, disk, start, run, prevChanged, webps, idx,
                   changedCount, savedBytes, buf, outBuf, out, exit, err,
                   trace>>

\* try { meta = await img.metadata(); } catch { ... }
OptMetadata ==
    /\ pc = "metadata"
    /\ IF MetadataOk(buf)
       THEN /\ pc' = "toBuffer"
            /\ UNCHANGED <<dirPresent, disk, start, run, prevChanged, webps,
                           idx, changedCount, savedBytes, buf, outBuf, res,
                           out, exit, err, trace>>
       ELSE MetadataCatch

\* const outBuf = await pipeline.toBuffer();
\* if (!resized && !smaller) return { changed: false, reason: ... };
OptToBuffer ==
    /\ pc = "toBuffer"
    /\ \E ok \in BOOLEAN :
        IF ok
        THEN /\ outBuf' = ToBuffer(buf)
             /\ IF NeedsWrite(Resized(MetaWidth(buf)),
                              Smaller(outBuf'.len, buf.len))
                THEN pc' = "writeFile" /\ res' = res
                ELSE pc' = "result" /\ res' = Unchanged("already_optimized")
             /\ trace' = Append(trace, Event("toBuffer", webps[idx], webps[idx]))
             /\ UNCHANGED <<dirPresent, disk, start, run, prevChanged, webps,
                            idx, changedCount, savedBytes, buf, out, exit,
                            err>>
        ELSE Throw("toBuffer")

\* await fs.writeFile(tmp, outBuf): the file is opened and truncated ...
OptWriteOpen ==
    /\ pc = "writeFile"
    /\ \E ok \in BOOLEAN :
        IF ok
        THEN /\ disk' = [disk EXCEPT ![TmpPath(webps[idx])] = Partial]
             /\ trace' = Append(trace, Event("writeFile", webps[idx],
                                          TmpPath(webps[idx])))
             /\ pc' = "writing"
             /\ UNCHANGED <<dirPresent, start, run, prevChanged, webps, idx,
                            changedCount, savedBytes, buf, outBuf, res, out,
                            exit, err>>
        ELSE Throw("open")

\* ... and then holds outBuf, unless the write rejects part way
OptWriteDone ==
    /\ pc = "writing"
    /\ \E ok \in BOOLEAN :
        IF ok
        THEN /\ disk' = [disk EXCEPT ![TmpPath(webps[idx])] = outBuf]
             /\ pc' = "rename"
             /\ UNCHANGED <<dirPresent, start, run, prevChanged, webps, idx,
                            changedCount, savedBytes, buf, outBuf, res, out,
                            exit, err, trace>>
        ELSE Throw("writeFile")

\* await fs.rename(tmp, filePath);
\* return { changed: true, resized, oldBytes, newBytes, width };
OptRename ==
    /\ pc = "rename"
    /\ \E ok \in BOOLEAN :
        IF ok
        THEN /\ disk' = Rename(disk, TmpPath(webps[idx]), webps[idx])
             /\ res' = Result(TRUE, "none", Resized(MetaWidth(buf)),
                              buf.len, outBuf.len, MetaWidth(buf))
             /\ trace' = Append(trace, Event("rename", webps[idx], webps[idx]))
             /\ pc' = "result"
             /\ UNCHANGED <<dirPresent, start, run, prevChanged, webps, idx,
                            changedCount, savedBytes, buf, outBuf, out, exit,
                            err>>
        ELSE Throw("rename")

----------------------------------------------------------------------------
(* The environment *)

\* The process is terminated from outside, at any point of a run.
Kill ==
    /\ pc # "end"
    /\ pc' = "end"
    /\ exit' = "killed"
    /\ UNCHANGED <<dirPresent, disk, start, run, prevChanged, webps, idx,
                   changedCount, savedBytes, buf, outBuf, res, out, err,
                   trace>>

Renamed(t) == { t[k].file : k \in { j \in 1..Len(t) : t[j].op = "rename" } }

\* The script is started again after a run that printed its summary.
Rerun ==
    /\ pc = "end"
    /\ exit = "exit0"
    /\ out # <<>>
    /\ out[Len(out)].line = "done"
    /\ run < NumRuns
    /\ run' = run + 1
    /\ start' = disk
    /\ prevChanged' = Renamed(trace)
    /\ pc' = "main"
    /\ webps' = <<>>
    /\ idx' = 1
    /\ changedCount' = 0
    /\ savedBytes' = 0
    /\ buf' = Absent
    /\ outBuf' = Absent
    /\ res' = Unchanged("none")
    /\ out' = <<>>
    /\ exit' = "running"
    /\ trace' = <<>>
    /\ UNCHANGED <<dirPresent, disk, err>>

Next ==
    \/ MainExists
    \/ MainWalk
    \/ MainLoop
    \/ MainResult
    \/ OptReadFile
    \/ OptMetadata
    \/ OptToBuffer
    \/ OptWriteOpen
    \/ OptWriteDone
    \/ OptRename
    \/ Kill
    \/ Rerun

Spec == Init /\ [][Next]_vars

----------------------------------------------------------------------------
(* Vocabulary of the properties *)

\* the run printed its summary line and ended normally
Completed ==
    /\ pc = "end"
    /\ exit = "exit0"
    /\ out # <<>>
    /\ out[Len(out)].line = "done"

\* the candidate list has been built and the run was not cut short before
Walked == pc \notin {"main", "walk", "end"} \/ Completed

\* the paths the filter of main accepts, and the paths with suffix .tmp
WebpPaths == { p \in Paths : IsWebp(p) }
TmpPaths == { p \in Paths : IsTmp(p) }

\* the image needs writing: it is wider than the maximum, or re-encodes smaller
NeedsWriting(c) == c.width > MAX_WIDTH \/ ToBuffer(c).len < c.len

\* the files that were on disk when the run began and now hold other bytes
Replaced ==
    { p \in Paths : start[p] # Absent /\ disk[p] # Absent /\ disk[p] # start[p] }

RECURSIVE SumSaved(_)
SumSaved(S) ==
    IF S = {} THEN 0
    ELSE LET p == CHOOSE q \in S : TRUE
         IN  (start[p].len - disk[p].len) + SumSaved(S \ {p})

\* position of a candidate in the list
Pos(f) == CHOOSE k \in 1..Len(webps) : webps[k] = f

\* the candidates this run read whose metadata could not be extracted
MetaFailedFiles ==
    { trace[k].file : k \in { j \in 1..Len(trace) :
          trace[j].op = "readFile" /\ ~MetadataOk(start[trace[j].file]) } }

----------------------------------------------------------------------------
(* C1 *)

\* C1: a file that was on disk when the run began has other bytes now only
\* if it is a .webp candidate that decoded and needed writing, and no file
\* whose name does not end in .webp is read or written by the run.
C1_OnlyNeededCandidatesTouched ==
    \A p \in Paths :
        start[p] # Absent =>
            /\ disk[p] # start[p] =>
                  p \in WebpPaths /\ MetadataOk(start[p]) /\ NeedsWriting(start[p])
            /\ p \notin WebpPaths =>
                  \A k \in 1..Len(trace) : trace[k].path # p

----------------------------------------------------------------------------
(* C2 *)

\* C2: at every point of a run, a kill or a failure between any two steps
\* included, each candidate path holds either the bytes it held when the run
\* began or the complete re-encoded output, never a partially written file.
C2_AtomicReplace ==
    \A p \in WebpPaths :
        \/ disk[p] = start[p]
        \/ MetadataOk(start[p]) /\ disk[p] = ToBuffer(start[p])

\* the process was killed while the temporary file was partially written
C2_Witness ==
    /\ exit = "killed"
    /\ pc = "end"
    /\ \E p \in Paths : disk[p] = Partial

----------------------------------------------------------------------------
(* C3 *)

\* C3: when optimizeWebp returns for a decodable candidate, the outcome is
\* changed, with the file holding the output buffer, exactly if the image
\* was wider than MAX_WIDTH or the output is shorter than the original;
\* otherwise the outcome is already_optimized and the file holds its
\* original bytes, as it still does when the run has completed.
C3_Decision ==
    /\ (pc = "result" /\ MetadataOk(start[webps[idx]])) =>
          LET f == webps[idx]
              c == start[f]
          IN  /\ res.changed <=> NeedsWriting(c)
              /\ res.changed =>
                    /\ disk[f] = ToBuffer(c)
                    /\ res.resized = (c.width > MAX_WIDTH)
                    /\ res.oldBytes = c.len
                    /\ res.newBytes = ToBuffer(c).len
              /\ ~res.changed =>
                    /\ res.reason = "already_optimized"
                    /\ disk[f] = c
    /\ Completed =>
          \A k \in 1..Len(webps) :
              LET c == start[webps[k]]
              IN  MetadataOk(c) =>
                     disk[webps[k]] = IF NeedsWriting(c) THEN ToBuffer(c) ELSE c

\* a resized image was written although its output is longer than it was
C3_Witness ==
    /\ pc = "result"
    /\ res.changed
    /\ res.resized
    /\ res.newBytes > res.oldBytes
    /\ disk[webps[idx]] = outBuf

----------------------------------------------------------------------------
(* C4 *)

\* the step of optimizeWebp at which metadata extraction fails
C4_CatchStep ==
    (pc = "metadata" /\ ~MetadataOk(buf) /\ exit' # "killed") =>
        /\ pc' = "result"
        /\ res' = Unchanged("metadata_failed")
        /\ exit' = "running"
        /\ err' = "none"
        /\ disk' = disk
        /\ changedCount' = changedCount
        /\ savedBytes' = savedBytes

\* the step of main that consumes the metadata_failed outcome
C4_ContinueStep ==
    (pc = "result" /\ res.reason = "metadata_failed" /\ exit' # "killed") =>
        /\ pc' = "loop"
        /\ idx' = idx + 1
        /\ exit' = "running"
        /\ disk' = disk
        /\ out' = out
        /\ changedCount' = changedCount
        /\ savedBytes' = savedBytes

\* no temporary file is written for a file whose metadata failed, the file
\* keeps its bytes, and a run that met only such failures ends with the summary
C4_Outcome ==
    /\ \A f \in MetaFailedFiles :
          /\ disk[f] = start[f]
          /\ disk[TmpPath(f)] = start[TmpPath(f)]
          /\ \A k \in 1..Len(trace) :
                trace[k].file = f => trace[k].op = "readFile"
    /\ (pc = "end" /\ MetaFailedFiles # {} /\ exit # "killed" /\ err = "none")
          => Completed

\* C4: when metadata extraction fails, optimizeWebp returns unchanged /
\* metadata_failed and raises nothing: the file keeps its bytes, no temporary
\* file is written, changedCount and savedBytes keep their values, main goes
\* on to the next candidate, and the run ends with the summary line.
C4_MetadataFailureIsSkipped ==
    /\ [][C4_CatchStep /\ C4_ContinueStep]_vars
    /\ []C4_Outcome

\* the first candidate failed metadata extraction, the second was replaced,
\* and the run printed its summary
C4_Witness ==
    /\ Completed
    /\ Len(webps) = 2
    /\ webps[1] \in MetaFailedFiles
    /\ changedCount = 1

----------------------------------------------------------------------------
(* C5 *)

\* C5: once a file read, an encode, a temporary write or a rename has
\* rejected, the run has ended with a non-zero exit status, the summary line
\* is not printed, and no candidate after the failing one is read, written
\* or changed.
C5_OtherFailuresAbort ==
    err # "none" =>
        /\ pc = "end"
        /\ exit = "exit1"
        /\ \A k \in 1..Len(out) : out[k].line # "done"
        /\ \A k \in 1..Len(trace) : Pos(trace[k].file) <= idx
        /\ \A k \in 1..Len(webps) :
              k > idx =>
                  /\ disk[webps[k]] = start[webps[k]]
                  /\ disk[TmpPath(webps[k])] = start[TmpPath(webps[k])]

\* the rename of the first of two candidates rejected
C5_Witness ==
    /\ err = "rename"
    /\ idx = 1
    /\ Len(webps) = 2
    /\ exit = "exit1"

----------------------------------------------------------------------------
(* C6 *)

\* C6: when a run has completed, the count it reports is the number of files
\* whose content was replaced, the saving it reports is the sum over those
\* files of original minus new byte count, and the lines before the summary
\* are one optimized line for each replaced file and nothing else.
C6_Summary ==
    Completed =>
        LET last == out[Len(out)]
        IN  /\ changedCount = Cardinality(Replaced)
            /\ last.a = Cardinality(Replaced)
            /\ savedBytes = SumSaved(Replaced)
            /\ last.b = SumSaved(Replaced)
            /\ Len(out) = Cardinality(Replaced) + 1
            /\ \A p \in Replaced :
                  \E k \in 1..(Len(out) - 1) :
                      out[k] = Line("optimized", Relative(ROOT, p),
                                    start[p].len, disk[p].len)

\* of two candidates one was replaced with a saving and one was skipped
C6_Witness ==
    /\ Completed
    /\ Len(webps) = 2
    /\ changedCount = 1
    /\ savedBytes > 0

----------------------------------------------------------------------------
(* C7 *)

\* C7: without the directory <cwd>/images the run walks nothing, reads and
\* writes nothing, raises nothing, and ends with the informational line as
\* its only output and exit status 0.
C7_AbsentDirectoryIsNoop ==
    ~dirPresent =>
        /\ pc \in {"main", "end"}
        /\ webps = <<>>
        /\ trace = <<>>
        /\ disk = start
        /\ err = "none"
        /\ (pc = "end" /\ exit # "killed") =>
              /\ exit = "exit0"
              /\ out = <<Line("nodir", TARGET_DIR, 0, 0)>>

\* a run without the directory has ended
C7_Witness ==
    /\ ~dirPresent
    /\ pc = "end"
    /\ exit = "exit0"
    /\ Len(out) = 1

----------------------------------------------------------------------------
(* C8 *)

\* C8 as stated: after a run that completed no path with suffix .tmp
\* holds a file, whatever the directory held before.
C8_NoTmpRemains ==
    Completed =>
        \A p \in TmpPaths : disk[p] = Absent

\* C8: after a run that completed, no temporary file written by the run
\* remains: the sibling .tmp path of every replaced file is free, and a .tmp
\* file on disk was there before the run, with the same bytes.
C8_NoOwnTmpRemains ==
    Completed =>
        /\ \A f \in Renamed(trace) : disk[TmpPath(f)] = Absent
        /\ \A p \in TmpPaths : disk[p] # Absent => disk[p] = start[p]

\* a run replaced a file and ended normally, and a temporary file that was
\* there before is still there
C8_Witness ==
    /\ Completed
    /\ changedCount >= 1
    /\ \E p \in TmpPaths : disk[p] # Absent

----------------------------------------------------------------------------
(* C9 *)

\* C9: in a run that follows a completed run whose outputs satisfy the skip
\* heuristic (none is wider than MAX_WIDTH, none re-encodes smaller), no file
\* is changed: nothing is written, the disk stays as the run found it, and
\* changedCount stays 0.
C9_SecondRunChangesNothing ==
    (run >= 2 /\ \A p \in prevChanged : ~NeedsWriting(start[p])) =>
        /\ changedCount = 0
        /\ disk = start
        /\ \A k \in 1..Len(trace) : trace[k].op \in {"readFile", "toBuffer"}

\* the second run completed over two candidates, of which the first run had
\* replaced at least one
C9_Witness ==
    /\ run = 2
    /\ Completed
    /\ prevChanged # {}
    /\ \A p \in prevChanged : ~NeedsWriting(start[p])
    /\ Len(webps) = 2
    /\ Len(trace) = 4

----------------------------------------------------------------------------
(* C10 *)

\* C10: the candidate list is the one computed from the tree before the
\* first file was processed; the steps of the candidates follow one another
\* in the order of the list, every step of a candidate before any step of
\* the next; no candidate is read twice; and a completed run has read each
\* candidate exactly once.
C10_Sequential ==
    Walked =>
        /\ webps = FilterWebp(Walk(TARGET_DIR, start))
        /\ \A j, k \in 1..Len(trace) :
              j < k =>
                  /\ Pos(trace[j].file) <= Pos(trace[k].file)
                  /\ ~(trace[j].op = "readFile" /\ trace[k] = trace[j])
        /\ \A k \in 1..Len(trace) :
              /\ \E j \in 1..Len(webps) : webps[j] = trace[k].file
              /\ Pos(trace[k].file) <= idx
        /\ Completed =>
              \A j \in 1..Len(webps) :
                  Cardinality({ k \in 1..Len(trace) :
                      trace[k] = Event("readFile", webps[j], webps[j]) }) = 1

\* a run completed in which both candidates were read, encoded, written and
\* renamed
C10_Witness ==
    /\ Completed
    /\ Len(webps) = 2
    /\ changedCount = 2
    /\ Len(trace) = 8

====
